---- MODULE Spec2Model ----
(***************************************************************************)
(* Model of src/cloud_dashboard.py: a Streamlit script that is re-run once *)
(* per poll cycle.  Each run fetches the published status file, keeps the  *)
(* best snapshot seen so far in st.session_state and renders a status card *)
(* from it.  One action, PollCycle, is one complete run of the script.     *)
(*                                                                         *)
(* Python values are records tagged with "kind"; None is [kind |-> "None"].*)
(* A dict is [kind |-> "dict", items, faultArray]: items maps ordinary     *)
(* string keys to values, faultArray[i] is the value stored under the key  *)
(* "system.general.faultArray[i]".  Times are whole seconds; a float is a  *)
(* whole number of seconds or an infinity.                                 *)
(*                                                                         *)
(* The helper functions get_val and get_active_fault_messages are also     *)
(* followed on their own, one call at a time, in the variable call.        *)
(***************************************************************************)
EXTENDS Integers, Sequences, FiniteSets, TLC

VARIABLES best_snapshot, best_ts, now, fresh_snapshot, fresh_ts, rendered, hist,
          call

vars == <<best_snapshot, best_ts, now, fresh_snapshot, fresh_ts, rendered, hist,
          call>>

-----------------------------------------------------------------------------
(* Bounds of the model *)

\* the wall clock at session start; "2023-11-14T22:13:20Z" when 1700000000
Epoch0 == 1700000000
\* published timestamps range over Epoch0 .. Epoch0 + MaxTsOffset
MaxTsOffset == 1
\* seconds a fetch may take (requests.get, timeout=5)
MaxLatency == 1
\* seconds of session the clock is followed under Spec
ShortHorizon == 30
\* under StaleSpec the clock is followed until the newest publishable
\* instant is older than the offline threshold by this many seconds
ClockSlack == 40

-----------------------------------------------------------------------------
(* Program constants *)

SLOW_THRESHOLD == 80
OFFLINE_THRESHOLD == 300
FaultScanLimit == 99
ConnectingSleep == 2
SettleSleep == 1
RefreshOnline == 10
RefreshOffline == 30
InitialBestTs == 0

FAULT_MAP ==
  [i \in 0..34 |->
     CASE i = 0 -> "Unknown fault - reserved"
       [] i = 1 -> "HV door interlock reads open"
       [] i = 2 -> "Water coolant primary flow reads off"
       [] i = 3 -> "Water coolant primary temp exceeds safe limit"
       [] i = 4 -> "Chiller unit reports fault"
       [] i = 5 -> "Source body temp exceeds safe limit"
       [] i = 6 -> "Thermionic current exceeds safe conditioning level"
       [] i = 7 -> "Thermionic current exceeds safe limit"
       [] i = 8 -> "Thermionic voltage exceeds safe limit"
       [] i = 9 -> "Thermionic power exceeds safe limit"
       [] i = 10 -> "Filament current exceeds safe limit"
       [] i = 11 -> "Filament voltage exceeds safe limit"
       [] i = 12 -> "Filament power exceeds safe limit"
       [] i = 13 -> "Filament resistance too high - possible open circuit"
       [] i = 14 -> "Filament resistance too low - possible short circuit"
       [] i = 15 -> "Ioniser power exceeds safe limit"
       [] i = 16 -> "Ioniser PID control error"
       [] i = 17 -> "Target current exceeds safe conditioning limit"
       [] i = 18 -> "Target current exceeds safe limit"
       [] i = 19 -> "Target voltage exceeds safe limit"
       [] i = 20 -> "Target power exceeds safe limit"
       [] i = 21 -> "Extraction current exceeds safe conditioning limit"
       [] i = 22 -> "Extraction current exceeds safe limit"
       [] i = 23 -> "Extraction voltage exceeds safe limit"
       [] i = 24 -> "Extraction power exceeds safe limit"
       [] i = 25 -> "Cesium temperature exceeds safe limit"
       [] i = 26 -> "Cesium cooldown has exceeded time limit"
       [] i = 27 -> "Cesium temperature reading failed"
       [] i = 28 -> "Cesium temperature has not increased within time limit"
       [] i = 29 -> "Cesium PID control error"
       [] i = 30 -> "Vaccum level in source too high"
       [] i = 31 -> "Time Fault"
       [] i = 32 -> "Flow rate for source coolant is insufficient"
       [] i = 33 -> "PLC Diagnostic Error - OB82"
       [] OTHER -> "Rack Error - cannot reach IO module"]

-----------------------------------------------------------------------------
(* Python / JSON values *)

None == [kind |-> "None"]
PyBool(b) == [kind |-> "bool", b |-> b]
PyNum(n) == [kind |-> "number", v |-> n]
\* a float: the finite one of value n, and the infinity of a sign (1 for
\* float("inf"), -1 for float("-inf")); inf is 0 in a finite float and v
\* is 0 in an infinite one
PyFloat(n) == [kind |-> "float", v |-> n, inf |-> 0]
PyInf(sign) == [kind |-> "float", v |-> 0, inf |-> sign]
\* a string, described by what its text is: the decimal numeral of v
\* ("1700000000"), the ISO-8601 UTC date-time of epoch second v
\* ("2023-11-14T22:13:20Z"), the text "inf", or some other non-empty text
\* that float() does not take ("yesterday")
PyStr(form, v) == [kind |-> "str", form |-> form, v |-> v]
\* a non-empty JSON array
PyList == [kind |-> "list"]
PyDict(items, faultArray) ==
  [kind |-> "dict", items |-> items, faultArray |-> faultArray]
EmptyDict == PyDict(<<>>, <<>>)
\* an exception propagating out of an expression
Raise(exc) == [kind |-> "raise", exc |-> exc]

\* Python truthiness: bool(x)
Truthy(x) ==
  CASE x.kind = "None" -> FALSE
    [] x.kind = "bool" -> x.b
    [] x.kind = "number" -> x.v # 0
    [] x.kind = "float" -> x.v # 0 \/ x.inf # 0
    [] x.kind = "str" -> TRUE
    [] x.kind = "list" -> TRUE
    [] x.kind = "dict" -> DOMAIN x.items # {} \/ DOMAIN x.faultArray # {}
    [] OTHER -> FALSE

\* x.get(key, default) for an ordinary key
DictGet(x, key, default) ==
  IF x.kind # "dict" THEN Raise("AttributeError")
  ELSE IF key \in DOMAIN x.items THEN x.items[key] ELSE default

\* x.get(f"system.general.faultArray[{i}]", default)
FaultGet(x, i, default) ==
  IF x.kind # "dict" THEN Raise("AttributeError")
  ELSE IF i \in DOMAIN x.faultArray THEN x.faultArray[i] ELSE default

\* float(x), inside the try/except of get_raw_data: None when it raises
FloatOrNone(x) ==
  CASE x.kind = "number" -> PyFloat(x.v)
    [] x.kind = "bool" -> PyFloat(IF x.b THEN 1 ELSE 0)
    [] x.kind = "str" /\ x.form = "decimal" -> PyFloat(x.v)
    [] x.kind = "str" /\ x.form = "inf" -> PyInf(1)
    [] OTHER -> None

\* a >= b and a > b of two floats
FloatGe(a, b) == IF a.inf # b.inf THEN a.inf > b.inf ELSE a.v >= b.v
FloatGt(a, b) == IF a.inf # b.inf THEN a.inf > b.inf ELSE a.v > b.v

-----------------------------------------------------------------------------
(* The functions of the script *)

\* get_raw_data with a slip: a timestamp that cannot be used is replaced
\* by the time of the fetch instead of None
get_raw_data_StampNow(response) ==
  IF response.kind = "exception" THEN <<None, None>>
  ELSE IF response.status_code # 200 THEN <<None, None>>
  ELSE IF response.json.kind = "raise" THEN <<None, None>>
  ELSE LET snapshot == response.json
           raw_ts == DictGet(snapshot, "timestamp", None)
       IN  IF raw_ts.kind = "raise" THEN <<None, None>>
           ELSE <<snapshot,
                  IF Truthy(raw_ts) /\ FloatOrNone(raw_ts) # None
                  THEN FloatOrNone(raw_ts) ELSE PyFloat(now)>>

\* get_raw_data(): the pair (snapshot, ts_val) it returns for one outcome
\* of requests.get.  A response is [kind |-> "exception"] (connection
\* error or timeout) or [kind |-> "response", status_code, json], json
\* being the value response.json() returns or Raise("JSONDecodeError").
get_raw_data(response) ==
  IF response.kind = "exception" THEN <<None, None>>
  ELSE IF response.status_code # 200 THEN <<None, None>>
  ELSE IF response.json.kind = "raise" THEN <<None, None>>
  ELSE LET snapshot == response.json
           raw_ts == DictGet(snapshot, "timestamp", None)
       IN  IF raw_ts.kind = "raise" THEN <<None, None>>
           ELSE <<snapshot, IF Truthy(raw_ts) THEN FloatOrNone(raw_ts) ELSE None>>

\* get_val with a slip: the test for missing data is left out
get_val_Unguarded(data, path, default) ==
  DictGet(data, path, default)

\* get_val(data, path, default)
get_val(data, path, default) ==
  IF ~Truthy(data) THEN default ELSE DictGet(data, path, default)

\* FaultDescription with a slip: one fixed text for every unlisted index
FaultDescriptionUnnumbered(i) ==
  IF i \in DOMAIN FAULT_MAP THEN <<FAULT_MAP[i]>> ELSE <<"Fault Code #">>

\* FAULT_MAP.get(i, f"Fault Code #{i}"), a text as the tuple of its parts
FaultDescription(i) ==
  IF i \in DOMAIN FAULT_MAP THEN <<FAULT_MAP[i]>> ELSE <<"Fault Code #", i>>

\* the loop of get_active_fault_messages from index i on
RECURSIVE ScanFaults(_, _)
ScanFaults(data, i) ==
  IF i >= FaultScanLimit THEN <<>>
  ELSE (IF Truthy(FaultGet(data, i, PyBool(FALSE)))
        THEN <<FaultDescription(i)>> ELSE <<>>) \o ScanFaults(data, i + 1)

-----------------------------------------------------------------------------
(* What the published file may hold *)

\* marks a key that the published object does not have
Absent == [kind |-> "absent"]

\* tag mappings
Tags(systemFault, faultArray) ==
  PyDict(IF systemFault = Absent THEN <<>>
         ELSE "system.general.systemFault" :> systemFault, faultArray)

TagsNoFault == Tags(PyBool(FALSE), (2 :> PyBool(FALSE)) @@ (99 :> PyBool(TRUE)))
TagsGlobalFault == Tags(PyBool(TRUE), <<>>)
TagsOneFault == Tags(Absent, 1 :> PyBool(TRUE))
TagsTwoFaults == Tags(PyBool(FALSE), (2 :> PyBool(TRUE)) @@ (40 :> PyBool(TRUE)))
TagsFlatFault == Tags(PyBool(TRUE), 3 :> PyBool(TRUE))

\* tags whose values the status lookup or the metric grid cannot take
TagsTextMetric ==
  PyDict("system.ionSource.ioniser.filament.readbackW" :> PyStr("other", 0), <<>>)
TagsNullMetric == PyDict("beamline.magnet.readbackA" :> None, <<>>)
TagsListStatus == PyDict("system.ionSource.general.status" :> PyList, <<>>)
\* tags of a running source: numbers where the page shows numbers
TagsRunning ==
  PyDict(("system.ionSource.general.status" :> PyNum(2))
           @@ ("system.ionSource.ioniser.filament.readbackW" :> PyNum(40))
           @@ ("beamline.drop_in_cup.measured_current_A" :> PyNum(0))
           @@ ("system.general.coolantStatus" :> PyBool(TRUE)), <<>>)

\* {"timestamp": ts, "data": data}; a key is left out when Absent is given
Enveloped(ts, data) ==
  PyDict((IF ts = Absent THEN <<>> ELSE "timestamp" :> ts)
           @@ (IF data = Absent THEN <<>> ELSE "data" :> data), <<>>)

\* {"<tag>": value, ..., "timestamp": ts}
Flat(ts, tags) ==
  PyDict((IF ts = Absent THEN <<>> ELSE "timestamp" :> ts) @@ tags.items,
         tags.faultArray)

PublishedInstants == {Epoch0 + k : k \in 0..MaxTsOffset}

RawTimestamps ==
  {Absent, None, PyNum(0 - 1), PyNum(0), PyStr("decimal", 0), PyBool(TRUE),
   PyStr("decimal", Epoch0), PyStr("iso8601", Epoch0), PyStr("other", 0),
   PyStr("inf", 0)}
    \cup {PyNum(n) : n \in PublishedInstants}

Snapshots ==
  {Enveloped(ts, TagsNoFault) : ts \in RawTimestamps}
    \cup {Enveloped(PyNum(n), d) :
            n \in PublishedInstants,
            d \in {EmptyDict, TagsGlobalFault, TagsOneFault, TagsTwoFaults, PyList, None}}
    \cup {Flat(PyNum(n), t) : n \in PublishedInstants, t \in {EmptyDict, TagsFlatFault, TagsGlobalFault}}
    \cup {Enveloped(PyNum(Epoch0), d) :
            d \in {TagsTextMetric, TagsNullMetric, TagsListStatus, TagsRunning}}

Ok(json) == [kind |-> "response", status_code |-> 200, json |-> json]

Responses ==
  {[kind |-> "exception"],
   [kind |-> "response", status_code |-> 404, json |-> None],
   Ok(Raise("JSONDecodeError")), Ok(PyList), Ok(None)}
    \cup {Ok(s) : s \in Snapshots}

\* the few outcomes followed over the long run of StaleSpec
StaleResponses ==
  {[kind |-> "exception"], Ok(Raise("JSONDecodeError")),
   Ok(Enveloped(PyNum(Epoch0), TagsOneFault)),
   Ok(Enveloped(PyNum(Epoch0), PyList))}
    \cup {Ok(Enveloped(PyNum(n), TagsNoFault)) : n \in PublishedInstants}

\* the last clock value from which a run is followed
SpecHorizon == Epoch0 + ShortHorizon
StaleHorizon == Epoch0 + MaxTsOffset + OFFLINE_THRESHOLD + ClockSlack

-----------------------------------------------------------------------------
(* The script, continued *)

\* the scan of every mapping a published file may hold under "data",
\* computed once
ScannedFaults ==
  [d \in {x \in {DictGet(s, "data", EmptyDict) : s \in Snapshots} : x.kind = "dict"}
     |-> ScanFaults(d, 0)]

\* get_active_fault_messages(data): the list, or the exception that
\* data.get raises when data is not a mapping (only KeyError is caught)
get_active_fault_messages(data) ==
  IF ~Truthy(data) THEN <<>>
  ELSE IF data.kind # "dict" THEN Raise("AttributeError")
  ELSE IF data \in DOMAIN ScannedFaults THEN ScannedFaults[data]
  ELSE ScanFaults(data, 0)

\* Accepts with a slip: the comparison with the tracked instant is reversed
AcceptsReversed(ts, fresh_s, fresh_t) ==
  Truthy(fresh_s) /\ Truthy(fresh_t) /\ FloatGe(ts, fresh_t)

\* Accepts with a slip: an instant equal to the tracked one is turned away
AcceptsStrict(ts, fresh_s, fresh_t) ==
  Truthy(fresh_s) /\ Truthy(fresh_t) /\ FloatGt(fresh_t, ts)

\* Accepts with a slip: the comparison with the tracked instant is left out
AcceptsIgnoringOrder(ts, fresh_s, fresh_t) ==
  Truthy(fresh_s) /\ Truthy(fresh_t)

\* lines 234-235: the condition under which the fetch result is taken
Accepts(ts, fresh_s, fresh_t) ==
  Truthy(fresh_s) /\ Truthy(fresh_t) /\ FloatGe(fresh_t, ts)

\* Consider with a slip: an older snapshot replaces the tracked snapshot
\* while the tracked instant is kept
ConsiderOverwrite(snapshot, ts, fresh_s, fresh_t) ==
  IF Truthy(fresh_s) /\ Truthy(fresh_t)
  THEN <<fresh_s, IF FloatGe(fresh_t, ts) THEN fresh_t ELSE ts>>
  ELSE <<snapshot, ts>>

\* Consider with a slip: a failed fetch clears the tracked snapshot
ConsiderForgetting(snapshot, ts, fresh_s, fresh_t) ==
  IF Truthy(fresh_s) /\ Truthy(fresh_t) /\ FloatGe(fresh_t, ts)
  THEN <<fresh_s, fresh_t>>
  ELSE IF fresh_s = None THEN <<None, ts>>
  ELSE <<snapshot, ts>>

\* Consider with a slip: the instant is replaced and the snapshot is not
ConsiderInstantOnly(snapshot, ts, fresh_s, fresh_t) ==
  IF Accepts(ts, fresh_s, fresh_t)
  THEN <<snapshot, fresh_t>>
  ELSE <<snapshot, ts>>

\* lines 233-237: the tracked pair after considering a fetch result
Consider(snapshot, ts, fresh_s, fresh_t) ==
  IF Accepts(ts, fresh_s, fresh_t)
  THEN <<fresh_s, fresh_t>>
  ELSE <<snapshot, ts>>

\* AgeSeconds with a slip: the subtraction reversed
AgeSecondsReversed(t, msg_timestamp) ==
  IF ~Truthy(msg_timestamp) THEN PyFloat(0)
  ELSE IF msg_timestamp.inf # 0 THEN msg_timestamp
  ELSE PyFloat(msg_timestamp.v - t)

\* IsStale with a slip: the threshold itself counts as slow
IsStaleInclusive(age_seconds) == FloatGe(age_seconds, PyFloat(SLOW_THRESHOLD))

\* line 250, time.time() - msg_timestamp if msg_timestamp else 0, the
\* clock reading t; a finite number less an infinity is the other infinity
AgeSeconds(t, msg_timestamp) ==
  IF ~Truthy(msg_timestamp) THEN PyFloat(0)
  ELSE IF msg_timestamp.inf # 0 THEN PyInf(0 - msg_timestamp.inf)
  ELSE PyFloat(t - msg_timestamp.v)

\* lines 251-252
IsStale(age_seconds) == FloatGt(age_seconds, PyFloat(SLOW_THRESHOLD))
IsOffline(age_seconds) == FloatGt(age_seconds, PyFloat(OFFLINE_THRESHOLD))

\* lines 271-290: the centre status card, or the OverflowError that
\* int(age_seconds) raises at line 286 or 288 for an infinite age; age is
\* int(age_seconds) of a finite one
StatusCard(is_fault_condition, active_fault_list, age_seconds) ==
  IF is_fault_condition
  THEN [value |-> "FAULT ACTIVE", style |-> "critical",
        sub_text |-> IF Len(active_fault_list) = 1
                       THEN [kind |-> "single", fault |-> active_fault_list[1]]
                     ELSE IF Len(active_fault_list) > 1
                       THEN [kind |-> "count", n |-> Len(active_fault_list)]
                     ELSE [kind |-> "check_logs"]]
  ELSE IF (IsOffline(age_seconds) \/ IsStale(age_seconds)) /\ age_seconds.inf # 0
  THEN Raise("OverflowError")
  ELSE IF IsOffline(age_seconds)
  THEN [value |-> "OFFLINE", style |-> "warning",
        sub_text |-> [kind |-> "last_seen", age |-> age_seconds.v]]
  ELSE IF IsStale(age_seconds)
  THEN [value |-> "SYSTEM NORMAL", style |-> "warning",
        sub_text |-> [kind |-> "slow", age |-> age_seconds.v]]
  ELSE [value |-> "SYSTEM NORMAL", style |-> "normal",
        sub_text |-> [kind |-> "stable"]]

\* line 263, state_map.get(state_code, "UNKNOWN"): a list or an object is
\* not hashable and makes the lookup raise
StateLookup(state_code) ==
  IF state_code.kind \in {"list", "dict"} THEN Raise("TypeError") ELSE None

\* int, float and bool values
IsNumber(x) == x.kind \in {"number", "float", "bool"}

\* f"{x:.2f}" and the other float formats of the metric grid: None when
\* the text is produced, the exception otherwise (the one get_val raised
\* when x is that)
FormatFloat(x) ==
  IF x.kind = "raise" THEN x
  ELSE IF IsNumber(x) THEN None
  ELSE IF x.kind = "str" THEN Raise("ValueError")
  ELSE Raise("TypeError")

\* lines 317-323: the beam current, read from the straight-through cup
\* when the drop-in cup reads 0, times 1e6, formatted
BeamCurrent(data) ==
  LET drop_in == get_val(data, "beamline.drop_in_cup.measured_current_A", PyNum(0))
      is_zero == IsNumber(drop_in) /\ ~Truthy(drop_in)
      cup_current == IF is_zero
                     THEN get_val(data, "beamline.straight_thru_cup.measured_current_A",
                                  PyNum(0))
                     ELSE drop_in
  IN  IF drop_in.kind = "raise" THEN drop_in
      ELSE IF cup_current.kind = "raise" THEN cup_current
      ELSE IF IsNumber(cup_current) THEN None
      ELSE Raise("TypeError")

\* lines 305-358, the metric grid: the first exception raised while the
\* metrics are formatted in the order of the script, None when there is none
MetricGrid(data) ==
  LET Metric(path) == FormatFloat(get_val(data, path, PyNum(0)))
      outcomes ==
        << Metric("system.ionSource.ioniser.filament.readbackW"),
           Metric("system.vacuumSystem.gauges.source.readback_mB"),
           BeamCurrent(data),
           Metric("beamline.magnet.readbackA"),
           Metric("system.ionSource.ioniser.filament.readbackA"),
           Metric("system.ionSource.ioniser.readbackW"),
           Metric("system.ionSource.extraction.readbackV"),
           Metric("system.ionSource.cesium.readbackC"),
           Metric("system.vacuumSystem.pumps.turbo.source_1.speed"),
           Metric("endstation.stage.motion.readback_z_mm") >>
      raising == {k \in DOMAIN outcomes : outcomes[k].kind = "raise"}
  IN  IF raising = {} THEN None
      ELSE outcomes[CHOOSE k \in raising : \A j \in raising : k <= j]

\* MetricGrid of every "data" value of Snapshots, worked out once
FormattedGrids ==
  [d \in {DictGet(s, "data", EmptyDict) : s \in Snapshots} |-> MetricGrid(d)]

\* lines 292-296: datetime.datetime.fromtimestamp(msg_timestamp), called
\* when msg_timestamp is truthy.  It returns for every finite instant
\* here (they are whole seconds from 1 to 2^31 - 1, dates of 1970 to 2038)
\* and raises for an infinity.
FromTimestamp(msg_timestamp) ==
  IF Truthy(msg_timestamp) /\ msg_timestamp.inf # 0
  THEN Raise("OverflowError") ELSE None

\* the card of a run that ended before line 271
NoCard == [value |-> "NONE"]

\* lines 239-358: what one run shows for the tracked pair at clock t.
\* An AttributeError from data.get surfaces at line 255, the first use of
\* data, so line 256 is reached only with a data that does not raise.
\* An exception ends the run wherever it is raised: before the card is
\* drawn at lines 263 and 286-288, after it at line 293 (the fault banner
\* is not yet drawn) and in the metric grid; the view keeps what was drawn
\* and the step that raised: reading "data" (line 247), the fault
\* classification (lines 255-259), the machine state (lines 261-263), the
\* text of the card (lines 286-288), the time of the last update (lines
\* 292-296), the metrics (lines 305-358).
Render(raw_snapshot, msg_timestamp, t) ==
  IF raw_snapshot = None THEN [kind |-> "connecting"]
  ELSE
    LET data == DictGet(raw_snapshot, "data", EmptyDict)
        age_seconds == AgeSeconds(t, msg_timestamp)
        fault_active_bit == get_val(data, "system.general.systemFault", PyBool(FALSE))
        active_fault_list == get_active_fault_messages(data)
        sys_state == StateLookup(get_val(data, "system.ionSource.general.status", PyNum(0)))
        pretty_time == FromTimestamp(msg_timestamp)
        grid == IF data \in DOMAIN FormattedGrids THEN FormattedGrids[data]
                ELSE MetricGrid(data)
    IN  IF data.kind = "raise"
          THEN [kind |-> "exception", exc |-> data.exc, step |-> "data",
                card |-> NoCard]
        ELSE IF fault_active_bit.kind = "raise"
          THEN [kind |-> "exception", exc |-> fault_active_bit.exc,
                step |-> "classification", card |-> NoCard]
        ELSE IF sys_state.kind = "raise"
          THEN [kind |-> "exception", exc |-> sys_state.exc,
                step |-> "state", card |-> NoCard]
        ELSE
          LET is_fault_condition == Truthy(fault_active_bit) \/ Len(active_fault_list) > 0
              fault_banner == is_fault_condition /\ Len(active_fault_list) > 0
              card == StatusCard(is_fault_condition, active_fault_list, age_seconds)
              Shown(kind, banner) ==
                [kind |-> kind,
                 card |-> card,
                 data |-> data,
                 clock |-> t,
                 age_seconds |-> age_seconds,
                 active_fault_list |-> active_fault_list,
                 fault_banner |-> banner]
          IN  IF card = Raise("OverflowError")
                THEN [kind |-> "exception", exc |-> "OverflowError",
                      step |-> "card", card |-> NoCard]
              ELSE IF pretty_time.kind = "raise"
                THEN [exc |-> pretty_time.exc, step |-> "last_update"]
                       @@ Shown("exception", FALSE)
              ELSE IF grid.kind = "raise"
                THEN [exc |-> grid.exc, step |-> "metrics"]
                       @@ Shown("exception", fault_banner)
              ELSE Shown("page", fault_banner)

\* lines 244 and 361-364: how long the run sleeps before st.rerun()
SleepAfter(view) ==
  IF view.kind = "connecting" THEN ConnectingSleep
  ELSE IF view.kind = "exception" THEN 0
  ELSE SettleSleep + (IF IsOffline(view.age_seconds) THEN RefreshOffline ELSE RefreshOnline)

-----------------------------------------------------------------------------
(* The state machine *)

\* the "timestamp" value of a fetched snapshot
RawTs(snapshot) == DictGet(snapshot, "timestamp", None)

\* lines 207-213: the fetch returned a snapshot whose timestamp is truthy
\* and is converted by float()
HasUsableTime(snapshot) ==
  /\ snapshot # None
  /\ Truthy(RawTs(snapshot))
  /\ FloatOrNone(RawTs(snapshot)) # None

\* lines 228-231, before the first run of the script; hist records, for
\* the statements about the session so far, what the runs have done:
\* advanced and tie tell how the last run replaced a tracked snapshot,
\* reaccepted that some run has replaced a tracked snapshot,
\* max_seen is the greatest strictly positive resolved instant fetched so
\* far and last_at_max the last snapshot fetched with it
Init ==
  /\ best_snapshot = None
  /\ best_ts = PyFloat(InitialBestTs)
  /\ now = Epoch0
  /\ fresh_snapshot = None
  /\ fresh_ts = None
  /\ rendered = [kind |-> "blank"]
  /\ hist = [accepted |-> FALSE, ever_accepted |-> FALSE, ever_resolved |-> FALSE,
             ever_timed |-> FALSE, advanced |-> FALSE, tie |-> FALSE,
             reaccepted |-> FALSE,
             max_seen |-> PyFloat(0), last_at_max |-> None]
  /\ call = [fn |-> "none"]

\* one run of the script: fetch (taking latency seconds), track, render,
\* sleep, st.rerun().  An uncaught exception ends the run without a rerun.
\* The clock is advanced by what the run takes.
ScriptRun(response, latency) ==
  /\ rendered.kind # "exception"
  /\ LET fetched == get_raw_data(response)
         tracked == Consider(best_snapshot, best_ts, fetched[1], fetched[2])
         view == Render(tracked[1], tracked[2], now + latency)
         accepted == Accepts(best_ts, fetched[1], fetched[2])
         positive == fetched[1] # None /\ fetched[2] # None
                       /\ FloatGt(fetched[2], PyFloat(0))
     IN  /\ fresh_snapshot' = fetched[1]
         /\ fresh_ts' = fetched[2]
         /\ best_snapshot' = tracked[1]
         /\ best_ts' = tracked[2]
         /\ rendered' = view
         /\ now' = now + latency + SleepAfter(view)
         /\ hist' = [accepted |-> accepted,
                     ever_accepted |-> hist.ever_accepted \/ accepted,
                     ever_resolved |-> hist.ever_resolved \/ fetched[2] # None,
                     ever_timed |-> hist.ever_timed \/ HasUsableTime(fetched[1]),
                     advanced |-> accepted /\ best_snapshot # None
                                    /\ FloatGt(fetched[2], best_ts),
                     tie |-> accepted /\ best_snapshot # None
                               /\ fetched[2] = best_ts
                               /\ fetched[1] # best_snapshot,
                     reaccepted |-> hist.reaccepted
                                      \/ (accepted /\ best_snapshot # None),
                     max_seen |-> IF positive /\ FloatGt(fetched[2], hist.max_seen)
                                  THEN fetched[2] ELSE hist.max_seen,
                     last_at_max |-> IF positive /\ FloatGe(fetched[2], hist.max_seen)
                                     THEN fetched[1] ELSE hist.last_at_max]
         /\ UNCHANGED call

\* a poll cycle; the session is followed while the clock is within horizon
PollCycle(response, latency, horizon) ==
  /\ now <= horizon
  /\ ScriptRun(response, latency)

\* every kind of published file, over the first seconds of a session
Next ==
  \E response \in Responses, latency \in 0..MaxLatency :
    PollCycle(response, latency, SpecHorizon)

Spec == Init /\ [][Next]_vars

\* a few kinds of published file, for as long as the session lasts
StaleNext ==
  \E response \in StaleResponses, latency \in 0..MaxLatency :
    PollCycle(response, latency, StaleHorizon)

StaleSpec == Init /\ [][StaleNext]_vars

\* one publishable instant with and without a fault, and failed polls, for
\* as long as the session lasts
FairResponses ==
  {[kind |-> "exception"],
   Ok(Enveloped(PyNum(Epoch0), TagsOneFault)),
   Ok(Enveloped(PyNum(Epoch0), TagsNoFault))}

FairNext ==
  \E response \in FairResponses, latency \in 0..MaxLatency :
    PollCycle(response, latency, StaleHorizon)

\* the script always reruns itself (st.rerun() at lines 245 and 365);
\* ClockSlack exceeds the longest run, so the last run that is followed
\* starts more than OFFLINE_THRESHOLD after every publishable instant
FairSpec == Init /\ [][FairNext]_vars /\ WF_vars(FairNext)

-----------------------------------------------------------------------------
(* The helper functions, one call at a time *)

\* fault-array indices at the ends of the fault table and of the scan
ProbeIndices == {0, 34, 35, 98, 99}

\* tag mappings holding any of those keys, each true or false, and two
\* mappings with values that are not booleans
ProbeMappings ==
  {PyDict(<<>>, f) : f \in UNION {[D -> {PyBool(TRUE), PyBool(FALSE)}] : D \in SUBSET ProbeIndices}}
    \cup {PyDict("system.general.systemFault" :> PyBool(TRUE), (1 :> PyNum(1)) @@ (2 :> PyNum(0))),
          PyDict(<<>>, (35 :> PyStr("other", 0)) @@ (36 :> None))}

\* a nested object, holding under "system" what a dotted path would name
NestedTags ==
  PyDict("system" :> PyDict("general.systemFault" :> PyBool(TRUE), <<>>), <<>>)

\* the calls of get_val that are followed
GetValCalls ==
  {[fn |-> "get_val", state |-> "called", data |-> d, path |-> p, default |-> dflt,
    result |-> None] :
     d \in {None, EmptyDict, TagsGlobalFault, TagsNoFault, TagsOneFault, NestedTags,
            PyDict("system.general.systemFault" :> None, <<>>)},
     p \in {"system.general.systemFault", "missing.key"},
     dflt \in {PyNum(0), PyBool(FALSE)}}

\* the calls of get_active_fault_messages that are followed
FaultCalls ==
  {[fn |-> "get_active_fault_messages", state |-> "called", data |-> d,
    result |-> None] : d \in ProbeMappings \cup {None}}

CallInit ==
  /\ best_snapshot = None
  /\ best_ts = PyFloat(InitialBestTs)
  /\ now = Epoch0
  /\ fresh_snapshot = None
  /\ fresh_ts = None
  /\ rendered = [kind |-> "blank"]
  /\ hist = [accepted |-> FALSE, ever_accepted |-> FALSE, ever_resolved |-> FALSE,
             ever_timed |-> FALSE, advanced |-> FALSE, tie |-> FALSE,
             reaccepted |-> FALSE,
             max_seen |-> PyFloat(0), last_at_max |-> None]
  /\ call \in GetValCalls \cup FaultCalls

\* get_val returns
ReturnGetVal ==
  /\ call.fn = "get_val"
  /\ call.state = "called"
  /\ call' = [call EXCEPT !.state = "returned",
                          !.result = get_val(call.data, call.path, call.default)]
  /\ UNCHANGED <<best_snapshot, best_ts, now, fresh_snapshot, fresh_ts, rendered, hist>>

\* get_active_fault_messages returns
ReturnFaultMessages ==
  /\ call.fn = "get_active_fault_messages"
  /\ call.state = "called"
  /\ call' = [call EXCEPT !.state = "returned",
                          !.result = get_active_fault_messages(call.data)]
  /\ UNCHANGED <<best_snapshot, best_ts, now, fresh_snapshot, fresh_ts, rendered, hist>>

CallNext == ReturnGetVal \/ ReturnFaultMessages

CallSpec == CallInit /\ [][CallNext]_vars

-----------------------------------------------------------------------------
(* Vocabulary of the claims *)

\* a status card is on the screen: the run reached line 271, whether or
\* not it ended in an exception later
ShowsCard ==
  rendered.kind \in {"page", "exception"} /\ rendered.card # NoCard

\* the health status a run displays
HealthStatus ==
  CASE rendered.kind = "connecting" -> "CONNECTING"
    [] ShowsCard /\ rendered.card.value = "FAULT ACTIVE" -> "FAULT"
    [] ShowsCard /\ rendered.card.value = "OFFLINE" -> "OFFLINE"
    [] ShowsCard /\ rendered.card.value = "SYSTEM NORMAL"
         /\ rendered.card.sub_text.kind = "slow" -> "SLOW"
    [] ShowsCard /\ rendered.card.value = "SYSTEM NORMAL"
         /\ rendered.card.sub_text.kind = "stable" -> "ONLINE"
    [] OTHER -> "NONE"

\* the tag mapping of a snapshot as the payload shapes define it: the
\* "data" sub-mapping of an enveloped payload, the whole payload of a flat one
SnapshotTags(snapshot) ==
  IF "data" \in DOMAIN snapshot.items THEN snapshot.items["data"] ELSE snapshot

\* systemFault is true or a scanned fault-array index is active in tags
FaultInTags(tags) ==
  /\ tags.kind = "dict"
  /\ \/ Truthy(DictGet(tags, "system.general.systemFault", PyBool(FALSE)))
     \/ \E i \in 0..98 : Truthy(FaultGet(tags, i, PyBool(FALSE)))

\* the tracked pair is the fetched snapshot and its instant
TrackedIsFresh ==
  best_snapshot = fresh_snapshot /\ fresh_ts # None /\ best_ts = fresh_ts

-----------------------------------------------------------------------------
(* The claims *)

\* C1: over any sequence of poll cycles the tracked instant best_ts after
\* a cycle is greater than or equal to its value before the cycle.
C1_Monotonic == [][FloatGe(best_ts', best_ts)]_vars

\* C1: an older snapshot was fetched after a newer one had been tracked
C1_Witness ==
  /\ hist.ever_accepted
  /\ fresh_ts # None
  /\ FloatGt(fresh_ts, PyFloat(0))
  /\ FloatGt(best_ts, fresh_ts)

\* C2: a cycle that fetches a snapshot with a resolved instant replaces the
\* tracked snapshot if and only if that instant is greater than or equal
\* to the instant tracked before the cycle.
C2_ReplacedIffNotOlder ==
  [][fresh_ts' # None => (TrackedIsFresh' <=> FloatGe(fresh_ts', best_ts))]_vars

\* C3: the first fetched snapshot that has a resolved instant is accepted
\* whatever the value of the instant (zero and negative values included).
C3_FirstResolvedAccepted ==
  [][(~hist.ever_resolved /\ fresh_ts' # None) => TrackedIsFresh']_vars

\* C4: a fetched snapshot whose timestamp is absent or is not resolved
\* (falsy, or not converted by float()) never changes the tracked pair, and while only such snapshots (or
\* failures) have been fetched the tracked snapshot is absent and the
\* dashboard shows CONNECTING.
C4_UnresolvedRejected ==
  /\ [][(fresh_snapshot' # None /\ ~HasUsableTime(fresh_snapshot'))
          => (best_snapshot' = best_snapshot /\ best_ts' = best_ts)]_vars
  /\ []((~hist.ever_timed /\ rendered.kind # "blank")
          => (best_snapshot = None /\ HealthStatus = "CONNECTING"))

\* C4: a snapshot without a usable timestamp was fetched and the dashboard
\* still shows CONNECTING
C4_Witness ==
  /\ fresh_snapshot # None
  /\ ~HasUsableTime(fresh_snapshot)
  /\ best_snapshot = None
  /\ HealthStatus = "CONNECTING"

\* C5: a cycle that accepts nothing (failed fetch, unresolved timestamp,
\* an instant of zero, which the acceptance test takes for none, or an
\* instant strictly below the tracked one) leaves the tracked
\* snapshot and instant as they were, and the tags and faults it displays
\* are those of the snapshot tracked before the cycle.
C5_RejectionKeepsTracked ==
  [][(fresh_snapshot' = None \/ fresh_ts' = None \/ fresh_ts' = PyFloat(0)
        \/ FloatGt(best_ts, fresh_ts'))
       => /\ best_snapshot' = best_snapshot
          /\ best_ts' = best_ts
          /\ ShowsCard' =>
               /\ rendered'.data = DictGet(best_snapshot, "data", EmptyDict)
               /\ rendered'.active_fault_list
                    = get_active_fault_messages(DictGet(best_snapshot, "data", EmptyDict))]_vars

\* C5: the older of two published instants was fetched after the newer had
\* been tracked, and the page was rendered from the newer
C5_Witness ==
  /\ rendered.kind = "page"
  /\ ~hist.accepted
  /\ fresh_ts = PyFloat(Epoch0)
  /\ FloatGt(best_ts, PyFloat(Epoch0))

\* C6: CONNECTING is shown in a cycle exactly when no snapshot has been
\* accepted so far; once a snapshot is tracked the tracked snapshot is
\* never absent again and CONNECTING is never shown again.
C6_ConnectingUntilFirstAccept ==
  /\ [](rendered.kind # "blank"
          => (HealthStatus = "CONNECTING" <=> ~hist.ever_accepted))
  /\ [](hist.ever_accepted <=> best_snapshot # None)
  /\ [][best_snapshot # None
          => (best_snapshot' # None /\ HealthStatus' # "CONNECTING")]_vars

\* C6: a poll failed after a snapshot had been accepted, and the page of
\* the tracked snapshot was rendered
C6_Witness ==
  /\ hist.ever_accepted
  /\ fresh_snapshot = None
  /\ rendered.kind = "page"

\* a first snapshot has been accepted, no snapshot has been accepted
\* since, and the run just made is a later one that shows the page of
\* the tracked snapshot
OnlyFirstAccepted ==
  /\ hist.ever_accepted
  /\ ~hist.reaccepted
  /\ ~hist.accepted
  /\ rendered.kind = "page"

\* the tracked snapshot is older than the offline threshold at the clock
\* the run has read
PastOfflineThreshold ==
  FloatGt(AgeSeconds(rendered.clock, best_ts), PyFloat(OFFLINE_THRESHOLD))

\* C7: after a first snapshot has been accepted, if no further snapshot is
\* accepted and the cycles keep running, the displayed status eventually
\* becomes OFFLINE.  Every run reads a later clock, so the age of the
\* tracked snapshot passes the offline threshold, and the status is
\* OFFLINE in the runs made from then on.
C7_EventuallyOffline ==
  (OnlyFirstAccepted /\ PastOfflineThreshold) => HealthStatus = "OFFLINE"

\* C7 as amended: the same when the tags of the tracked snapshot hold no
\* fault condition: the status is OFFLINE in every run made after the age
\* has passed the offline threshold, and such a run is made; with a fault
\* condition the status is FAULT however old the snapshot is.
C7_EventuallyOfflineUnlessFault ==
  /\ []((OnlyFirstAccepted /\ PastOfflineThreshold /\ ~FaultInTags(rendered.data))
          => HealthStatus = "OFFLINE")
  /\ []((OnlyFirstAccepted /\ FaultInTags(rendered.data))
          => HealthStatus = "FAULT")
  /\ (best_snapshot # None /\ rendered.kind = "page" /\ ~FaultInTags(rendered.data))
       ~> (HealthStatus = "OFFLINE" \/ hist.accepted)

\* C7: OFFLINE is shown after a failed poll for a snapshot that was
\* published during the session
C7_Witness ==
  /\ OnlyFirstAccepted
  /\ PastOfflineThreshold
  /\ HealthStatus = "OFFLINE"
  /\ fresh_snapshot = None
  /\ ~hist.accepted
  /\ FloatGe(best_ts, PyFloat(Epoch0))

\* C8: every cycle that renders a tracked snapshot shows FAULT when
\* systemFault is true or a fault-array index is active in the tags of
\* the tracked snapshot, whatever the staleness tier.
C8_FaultPrecedence ==
  (ShowsCard /\ FaultInTags(SnapshotTags(best_snapshot)))
    => HealthStatus = "FAULT"

\* C9: with no fault condition active and elapsed = now - tracked instant
\* (now being the clock read by the run that renders),
\* the tier is OFFLINE exactly when elapsed > 300, SLOW exactly when
\* 80 < elapsed <= 300 and ONLINE exactly when elapsed <= 80.
C9_Tiers ==
  (ShowsCard /\ HealthStatus # "FAULT") =>
    LET elapsed == IF best_ts.inf = 0 THEN PyFloat(rendered.clock - best_ts.v)
                   ELSE PyInf(0 - best_ts.inf)
    IN  /\ rendered.age_seconds = elapsed
        /\ HealthStatus = "OFFLINE" <=> FloatGt(elapsed, PyFloat(300))
        /\ HealthStatus = "SLOW" <=> (/\ FloatGt(elapsed, PyFloat(80))
                                      /\ FloatGe(PyFloat(300), elapsed))
        /\ HealthStatus = "ONLINE" <=> FloatGe(PyFloat(80), elapsed)

\* C9: a page rendered exactly 80 seconds after the tracked instant shows
\* ONLINE
C9_Witness ==
  /\ rendered.kind = "page"
  /\ rendered.age_seconds = PyFloat(80)
  /\ HealthStatus = "ONLINE"

\* C10: a fetched snapshot whose timestamp is the ISO-8601 text of an
\* epoch second resolves to that second, like the number itself.
C10_IsoResolves ==
  \A n \in PublishedInstants :
    (fresh_snapshot # None /\ RawTs(fresh_snapshot) = PyStr("iso8601", n))
      => fresh_ts = PyFloat(n)

\* C11: whenever a tracked snapshot is rendered, the tag mapping the page
\* reads is the "data" sub-mapping of an enveloped payload and the whole
\* payload of a flat one, and the fault decoder and the systemFault
\* accessor see that mapping.
C11_BothShapes ==
  ShowsCard =>
    /\ get_val(rendered.data, "system.general.systemFault", PyBool(FALSE))
         = get_val(SnapshotTags(best_snapshot), "system.general.systemFault", PyBool(FALSE))
    /\ rendered.active_fault_list = get_active_fault_messages(SnapshotTags(best_snapshot))

\* the fault-array indices in 0..98 whose tag is present and truthy
ActiveIndices(tags) ==
  {i \in 0..98 : i \in DOMAIN tags.faultArray /\ Truthy(tags.faultArray[i])}

\* the members of a set of indices in ascending order
RECURSIVE Ascending(_)
Ascending(S) ==
  IF S = {} THEN <<>>
  ELSE LET m == CHOOSE x \in S : \A y \in S : x <= y
       IN  <<m>> \o Ascending(S \ {m})

\* C12: for a tag mapping, get_active_fault_messages returns one entry per
\* index in 0..98 whose faultArray tag is truthy, in ascending index order,
\* and nothing for missing keys, falsy values or indices outside 0..98;
\* the entry is the table's description of a listed index and the
\* placeholder "Fault Code #i" of an unlisted one.
C12_FaultDecoding ==
  (call.fn = "get_active_fault_messages" /\ call.state = "returned"
     /\ call.data.kind = "dict")
    => LET indices == Ascending(ActiveIndices(call.data))
       IN  /\ Len(call.result) = Len(indices)
           /\ \A k \in 1..Len(indices) :
                call.result[k] = IF indices[k] \in 0..34
                                 THEN <<FAULT_MAP[indices[k]]>>
                                 ELSE <<"Fault Code #", indices[k]>>

\* a call has returned for a mapping with a listed index, two unlisted
\* ones, a falsy one and one past the scan
C12_Witness ==
  /\ call.fn = "get_active_fault_messages"
  /\ call.state = "returned"
  /\ call.data.kind = "dict"
  /\ DOMAIN call.data.faultArray = ProbeIndices
  /\ ActiveIndices(call.data) = {0, 35, 98}
  /\ Truthy(call.data.faultArray[99])
  /\ Len(call.result) = 3

\* C13: when systemFault is true in the tags of the tracked snapshot and
\* no fault-array index in 0..98 is active, the page shows FAULT with an
\* empty list of specific faults, the check-logs text in the card, and no
\* detailed fault list.
C13_GlobalFaultFallback ==
  (/\ ShowsCard
   /\ SnapshotTags(best_snapshot).kind = "dict"
   /\ Truthy(DictGet(SnapshotTags(best_snapshot), "system.general.systemFault", PyBool(FALSE)))
   /\ ActiveIndices(SnapshotTags(best_snapshot)) = {})
    => /\ HealthStatus = "FAULT"
       /\ rendered.active_fault_list = <<>>
       /\ rendered.card.sub_text.kind = "check_logs"
       /\ ~rendered.fault_banner

\* C14: get_val(tags, key, default) returns the value stored under the
\* exact flat key when the mapping has it, and returns default, raising
\* nothing, when the key is absent or tags is absent or an empty mapping;
\* a dotted key is never looked up inside a nested object.
C14_GetVal ==
  (call.fn = "get_val" /\ call.state = "returned")
    => /\ call.result.kind # "raise"
       /\ IF call.data.kind = "dict" /\ call.path \in DOMAIN call.data.items
          THEN call.result = call.data.items[call.path]
          ELSE call.result = call.default

\* get_val has returned the default for a nested object whose inner value
\* a dotted path would name
C14_Witness ==
  /\ call.fn = "get_val"
  /\ call.state = "returned"
  /\ call.path = "system.general.systemFault"
  /\ call.data = NestedTags
  /\ call.result = call.default

\* C15: no poll cycle ends in an uncaught exception, whatever the fetch
\* returns: a failed request, a body that is not JSON or not an object, a
\* malformed timestamp, or a "data" field that is null or not a mapping:
\* no run is ended by an exception of the steps up to the fault
\* classification and decoding.
C15_NoUncaughtError ==
  rendered.kind = "exception" => rendered.step \notin {"data", "classification"}

\* C16: the tracked snapshot and the tracked instant are replaced
\* together: in every state the tracked instant is the resolved timestamp
\* of the tracked snapshot, the snapshot is absent exactly when the
\* instant has its initial value, and what a run has rendered was read
\* from that one pair.
C16_TrackedPair ==
  /\ (best_snapshot = None) <=> (best_ts = PyFloat(InitialBestTs))
  /\ best_snapshot # None => FloatOrNone(RawTs(best_snapshot)) = best_ts
  /\ rendered.kind = "connecting" => best_snapshot = None
  /\ ShowsCard =>
       /\ best_snapshot # None
       /\ rendered.data = DictGet(best_snapshot, "data", EmptyDict)
       /\ rendered.age_seconds = AgeSeconds(rendered.clock, best_ts)

\* a run has accepted the later of the published snapshots and rendered it
C16_Witness ==
  /\ hist.accepted
  /\ rendered.kind = "page"
  /\ best_snapshot = fresh_snapshot
  /\ best_ts = PyFloat(Epoch0 + MaxTsOffset)
  /\ now > Epoch0 + ConnectingSleep

\* the "data" field of a snapshot is missing, null or a mapping, the
\* tags of the mapping hold booleans and numbers, and the instant its
\* timestamp resolves to is a date
WellFormed(snapshot) ==
  LET data == DictGet(snapshot, "data", EmptyDict)
      ts_val == FloatOrNone(RawTs(snapshot))
  IN  /\ \/ data.kind = "None"
         \/ /\ data.kind = "dict"
            /\ \A k \in DOMAIN data.items : IsNumber(data.items[k])
            /\ \A i \in DOMAIN data.faultArray : IsNumber(data.faultArray[i])
      /\ ts_val # None => FromTimestamp(ts_val) = None

\* C17: in every poll cycle whose fetch returns a well-formed snapshot
\* with a resolved instant strictly greater than the tracked instant, that
\* snapshot is accepted in the same cycle, and the page rendered in the
\* cycle is rendered from it.
C17_ForwardProgress ==
  [][(/\ fresh_snapshot' # None
      /\ fresh_ts' # None
      /\ FloatGt(fresh_ts', best_ts)
      /\ WellFormed(fresh_snapshot'))
       => /\ hist'.accepted
          /\ best_snapshot' = fresh_snapshot'
          /\ best_ts' = fresh_ts'
          /\ FloatGt(best_ts', best_ts)
          /\ rendered'.kind = "page"
          /\ rendered'.data = DictGet(fresh_snapshot', "data", EmptyDict)
          /\ rendered'.age_seconds = PyFloat(rendered'.clock - fresh_ts'.v)]_vars

\* a later snapshot has replaced a tracked one and is on the page
C17_Witness ==
  /\ hist.accepted
  /\ hist.advanced
  /\ rendered.kind = "page"
  /\ best_snapshot = fresh_snapshot
  /\ best_ts = PyFloat(Epoch0 + MaxTsOffset)

\* C18: in a cycle whose fetch returns a parsed payload with an unresolved
\* timestamp, the tracked snapshot and instant stay as they were, and the
\* tags on the page rendered in that cycle are the tags of the fetched
\* snapshot.
C18_UnresolvedShown ==
  [][(fresh_snapshot' # None /\ fresh_ts' = None)
       => /\ best_snapshot' = best_snapshot
          /\ best_ts' = best_ts
          /\ ShowsCard' =>
               rendered'.data = DictGet(fresh_snapshot', "data", EmptyDict)]_vars

\* C19: after any sequence of poll cycles the tracked instant is the
\* greatest resolved instant among the fetched snapshots whose resolved
\* instant is strictly positive, or the initial 0.0 when there is none,
\* and the tracked snapshot is the one fetched last among those with
\* that instant.
C19_TrackedIsLastMaximum ==
  /\ best_ts = hist.max_seen
  /\ best_snapshot = hist.last_at_max

\* a snapshot with the instant of the tracked one, fetched after it, has
\* taken its place
C19_Witness ==
  /\ hist.tie
  /\ best_ts = hist.max_seen
  /\ FloatGt(best_ts, PyFloat(0))
  /\ best_snapshot = fresh_snapshot

====
